---- MODULE Spec2Model ----
(***************************************************************************)
(* Minute-bar store of zipline/data/us_equity_minutes.py:                  *)
(* BcolzMinuteBarWriter (full_minutes_for_days, _write_internal) and       *)
(* BcolzMinuteBarReader (_find_position_of_minute, _open_minute_file).     *)
(*                                                                         *)
(* Time.  A timestamp is a whole number of minutes since the Unix epoch,   *)
(* in UTC (the frames are minute bars); a day is a number of days since    *)
(* the epoch.  2002-01-02 is day 11689, 2002-10-25 is day 11985.           *)
(***************************************************************************)
EXTENDS Integers, Sequences, FiniteSets, TLC

\* us_equity_minutes.py:34
MINUTES_PER_DAY == 390

(***************************************************************************)
(* Bounds of the model.                                                    *)
(***************************************************************************)
\* Longest frame (rows of one instrument's DataFrame).
MaxRows == 2
\* Longest list of assets handed to one write() call.
MaxPassLen == 2
\* Calls of _open_minute_file made on one reader.
MaxCalls == 3

\* Instrument ids (sids).
Assets == {1, 2}

(***************************************************************************)
(* Calendar and clock.                                                     *)
(***************************************************************************)

\* Two windows of tradingcalendar.trading_days (NYSE): Wed 2002-01-02 ..
\* Mon 2002-01-07 (winter time; Sat 5th and Sun 6th closed) and
\* Fri 2002-10-25 .. Tue 2002-10-29 (Sat 26th, Sun 27th closed; US daylight
\* saving time ends on Sun 27th).
Calendars == { {11689, 11690, 11691, 11694}, {11985, 11988, 11989} }

\* Timestamp.date() of a UTC timestamp / env.normalize_date: the UTC day.
DateOf(t) == t \div 1440

\* Offset of US/Eastern behind UTC, in minutes, on a day of 2002: daylight
\* saving time from Sun 2002-04-07 (day 11784) until Sun 2002-10-27 (11987).
EasternUtcOffset(day) == IF day >= 11784 /\ day < 11987 THEN 240 ELSE 300

\* pd.Timestamp(datetime(y, m, d, hour=9, minute=31),
\*              tz='US/Eastern').tz_convert('UTC')
SessionOpen(day) == day * 1440 + (9 * 60 + 31) + EasternUtcOffset(day)

\* dt.value / 1e9, assigned to a uint32 slot: the epoch seconds of a
\* whole-minute timestamp (below 2^31 for every date of the model).
EpochSeconds(t) == t * 60

RECURSIVE SortedSeq(_)
\* An ordered DatetimeIndex of a set of days.
SortedSeq(S) ==
    IF S = {} THEN << >>
    ELSE LET m == CHOOSE x \in S : \A y \in S : x <= y
         IN  << m >> \o SortedSeq(S \ {m})

RECURSIVE BinarySearchLeft(_, _, _, _)
BinarySearchLeft(a, v, lo, hi) ==
    IF lo >= hi THEN lo
    ELSE LET mid == (lo + hi) \div 2
         IN  IF a[mid + 1] < v
             THEN BinarySearchLeft(a, v, mid + 1, hi)
             ELSE BinarySearchLeft(a, v, lo, mid)

\* Index.searchsorted(v), side='left': the 0-based insertion point of v
\* in the ascending sequence a.
searchsorted(a, v) == BinarySearchLeft(a, v, 0, Len(a))

\* env.days_in_range(start, end): the trading days d, start <= d <= end.
days_in_range(cal, start_date, end_date) ==
    SortedSeq({d \in cal : start_date <= d /\ d <= end_date})

\* Mutant of minutes_in_day: periods one short.
minutes_in_day_short(day) ==
    [i \in 1..(MINUTES_PER_DAY - 1) |-> SessionOpen(day) + (i - 1)]

\* pd.date_range(start=<session open of day>, periods=390, freq="min")
minutes_in_day(day) ==
    [i \in 1..MINUTES_PER_DAY |-> SessionOpen(day) + (i - 1)]

RECURSIVE Concatenate(_)
\* np.concatenate(all_minutes)
Concatenate(days) ==
    IF days = << >> THEN << >>
    ELSE minutes_in_day(Head(days)) \o Concatenate(Tail(days))

\* BcolzMinuteBarWriter.full_minutes_for_days(env, dt1, dt2).  With no
\* trading day in the range np.concatenate raises ValueError: see
\* GridRaises.
full_minutes_for_days(cal, dt1, dt2) ==
    Concatenate(days_in_range(cal, DateOf(dt1), DateOf(dt2)))

GridRaises(cal, dt1, dt2) ==
    days_in_range(cal, DateOf(dt1), DateOf(dt2)) = << >>

\* BcolzMinuteBarReader.__init__: trading_days[slice_indexer(first_trading_day)]
ReaderTradingDays(cal, first_day) == SortedSeq({d \in cal : d >= first_day})

\* Mutant of find_position_of_minute: the day opens at 9:30, as in the
\* docstring's example.
find_position_of_minute_930(trading_days, minute_dt) ==
    LET day == DateOf(minute_dt)
        day_idx == searchsorted(trading_days, day)
        day_open == SessionOpen(day) - 1
        minutes_offset == ((minute_dt - day_open) * 60) \div 60
    IN  IF day_idx < 0 THEN -1
        ELSE MINUTES_PER_DAY * day_idx + minutes_offset

\* BcolzMinuteBarReader._find_position_of_minute(minute_dt)
find_position_of_minute(trading_days, minute_dt) ==
    LET day == DateOf(minute_dt)
        day_idx == searchsorted(trading_days, day)
        day_open == SessionOpen(day)
        minutes_offset == ((minute_dt - day_open) * 60) \div 60
    IN  IF day_idx < 0 THEN -1
        ELSE MINUTES_PER_DAY * day_idx + minutes_offset

(***************************************************************************)
(* Frames: the sparse observations of one instrument, as gen_frames yields *)
(* them: a DataFrame indexed by minute, rows in ascending time order, one  *)
(* row per timestamp.                                                      *)
(***************************************************************************)

\* The observation timestamps of the model, for a calendar whose first two
\* trading days are d1 < d2: the first minute of d1; the minute after d1's
\* 390th; the first minute of the session of the calendar day after d1
\* (a trading day in one calendar, a Saturday in the other); the minute
\* before d2's session opens; d2's 390th minute.
ObservationMinutes(cal) ==
    LET s == SortedSeq(cal)
        d1 == s[1]
        d2 == s[2]
    IN  { SessionOpen(d1),
          SessionOpen(d1) + MINUTES_PER_DAY,
          SessionOpen(d1 + 1),
          SessionOpen(d2) - 1,
          SessionOpen(d2) + MINUTES_PER_DAY - 1 }

\* The first_trading_day a writer is constructed with.
AnchorDays(cal) == LET s == SortedSeq(cal) IN {s[1], s[2]}

\* The row of instrument a at minute t: integer-encoded prices and volume,
\* all within uint32, so that the uint32 columns hold them unchanged.
Bar(a, t) ==
    LET p == 1000 * a + (t % 100)
    IN  [minute |-> t, open |-> p + 1, high |-> p + 3, low |-> p,
         close |-> p + 2, volume |-> 10 * p]

\* The time-ordered indexes of the frames over a calendar: every
\* ascending choice of 1..MaxRows observation minutes.
Indexes(cal) ==
    { SortedSeq(S) : S \in { T \in SUBSET ObservationMinutes(cal) :
                               T # {} /\ Cardinality(T) <= MaxRows } }

\* The frame of instrument a with index q.
Frame(a, q) == [i \in 1..Len(q) |-> Bar(a, q[i])]

\* The minutes of the one-bar frames a pass is cut short by or not: the
\* first minute of the first trading day's session and the minute after
\* its last.
BoundaryMinutes(cal) ==
    LET d1 == SortedSeq(cal)[1]
    IN  { SessionOpen(d1), SessionOpen(d1) + MINUTES_PER_DAY }

\* A data source of one bar per instrument, at a boundary minute.
IsBoundary(cal, fm) ==
    \A a \in Assets :
        Len(fm[a]) = 1 /\ fm[a][1].minute \in BoundaryMinutes(cal)

\* The data sources of one bar per instrument at a boundary minute.
BoundaryFrames(cal) ==
    { [a \in Assets |-> Frame(a, << m[a] >>)] :
        m \in [Assets -> BoundaryMinutes(cal)] }

\* The data sources of the model (asset -> frame, what gen_frames reads
\* or is given): instruments that all trade at the same minutes, and the
\* boundary frames.
DataSources(cal) ==
    { [a \in Assets |-> Frame(a, q)] : q \in Indexes(cal) }
    \cup BoundaryFrames(cal)

\* The asset lists a caller passes to write().
Passes == UNION { [1..n -> Assets] : n \in 1..MaxPassLen }

\* The asset maps a MinuteBarWriterFromCSVs is constructed with, as the
\* set of assets the map has a path for.  A MinuteBarWriterFromDataFrames
\* has a frame for every asset it is asked to write: the full set.
AssetMaps == SUBSET Assets

\* sid_path_func is None.
NoSidPathFunc == << >>

\* The sid_path_func arguments: None, and a function sending every sid to
\* the path of sid 1.  A path is named by the sid whose default path
\* "<sid>.bcolz" it is.
SidPathFuncs ==
    { NoSidPathFunc, [a \in Assets |-> 1] }

\* The timestamps _find_position_of_minute is asked about: around the
\* first and the last minute of the session of every calendar day from
\* the day before the calendar's first trading day to the day after its
\* last.
QueryMinutes(cal) ==
    LET s == SortedSeq(cal)
    IN  UNION { { SessionOpen(d) - 1, SessionOpen(d), SessionOpen(d) + 1,
                  SessionOpen(d) + MINUTES_PER_DAY - 1,
                  SessionOpen(d) + MINUTES_PER_DAY } :
                d \in (s[1] - 1)..(s[Len(s)] + 1) }

\* The fields a reader is asked for: the keys of _carrays.
ReaderFields == {"open", "high", "low", "close", "volume", "sid", "dt"}

(***************************************************************************)
(* State.                                                                  *)
(***************************************************************************)
VARIABLES
    calendar,           \* tradingcalendar.trading_days (the window of it)
    first_trading_day,  \* BcolzMinuteBarWriter._first_trading_day
    frames,             \* asset -> frame: the writer's data source
    metadata,           \* metadata.json of the directory
    store,              \* path -> the directory at that path
    pc,                 \* where the caller is
    assets,             \* the list the running write() iterates
    k,                  \* instruments of that list already written
    error,              \* the exception the last call raised, or "none"
    created,            \* history: directories the running write() made
    asset_map,          \* MinuteBarWriterFromCSVs._asset_map (its keys)
    sid_path_func,      \* the sid_path_func of write() / of the reader
    carrays,            \* BcolzMinuteBarReader._carrays
    calls,              \* _open_minute_file calls made so far
    opened,             \* bcolz.open calls that returned so far
    ret,                \* what the last _open_minute_file call returned
    minute_dt,          \* argument of _find_position_of_minute
    position            \* its result

vars == << calendar, first_trading_day, frames, metadata, store, pc, assets,
           k, error, created, asset_map, sid_path_func, carrays, calls,
           opened, ret, minute_dt, position >>

env_vars == << calendar, first_trading_day, frames >>
writer_vars == << metadata, store, assets, k, created, asset_map,
                 sid_path_func >>
reader_vars == << carrays, calls, opened, ret >>
index_vars == << minute_dt, position >>

\* A directory that does not exist; one os.makedirs created and nothing
\* filled; one holding a ctable.
Absent == [exists |-> FALSE, table |-> << >>]
EmptyDir == [exists |-> TRUE, table |-> << >>]
Complete(dir) == dir.exists /\ dir.table # << >>

(***************************************************************************)
(* The writer.                                                             *)
(***************************************************************************)

\* _write_internal: first_open
first_open(first_day) == SessionOpen(first_day)

\* Mutant of Zeros: dt_col allocated without clearing it (np.empty).
Zeros_dt_uncleared(minutes_count) ==
    [f \in {"open", "high", "low", "close", "volume", "dt"} |->
        [i \in 1..minutes_count |-> IF f = "dt" THEN 1 ELSE 0]]

\* np.zeros(minutes_count, dtype=np.uint32), six times
Zeros(minutes_count) ==
    [f \in {"open", "high", "low", "close", "volume", "dt"} |->
        [i \in 1..minutes_count |-> 0]]

\* One turn of the scatter loop, idx within the arrays.
ScatterRow(cols, idx, row) ==
    [ open   |-> [cols.open   EXCEPT ![idx + 1] = row.open],
      high   |-> [cols.high   EXCEPT ![idx + 1] = row.high],
      low    |-> [cols.low    EXCEPT ![idx + 1] = row.low],
      close  |-> [cols.close  EXCEPT ![idx + 1] = row.close],
      volume |-> [cols.volume EXCEPT ![idx + 1] = row.volume],
      dt     |-> [cols.dt     EXCEPT ![idx + 1] = EpochSeconds(row.minute)] ]

RECURSIVE Scatter(_, _, _, _)
\* for row in df.iterrows(): ... from row i on.  An idx equal to the
\* arrays' length raises IndexError.
Scatter(cols, minutes, df, i) ==
    IF i > Len(df) THEN [error |-> "none", cols |-> cols]
    ELSE LET idx == searchsorted(minutes, df[i].minute)
         IN  IF idx >= Len(minutes)
             THEN [error |-> "IndexError", cols |-> << >>]
             ELSE Scatter(ScatterRow(cols, idx, df[i]), minutes, df, i + 1)

\* The grid of an instrument: full_minutes_for_days(_writer_env, first_open,
\* df.index[-1]).
GridOf(cal, first_day, df) ==
    full_minutes_for_days(cal, first_open(first_day), df[Len(df)].minute)

\* The body of the loop of _write_internal after os.makedirs(path): the
\* columns handed to ctable, or the exception raised before.
BuildColumns(cal, first_day, df) ==
    IF GridRaises(cal, first_open(first_day), df[Len(df)].minute)
    THEN [error |-> "ValueError", cols |-> << >>]
    ELSE LET minutes == GridOf(cal, first_day, df)
         IN  Scatter(Zeros(Len(minutes)), minutes, df, 1)

\* Mutant of CurrentAsset: the list is taken from its end.
CurrentAsset_reversed(list, n) == list[Len(list) - n]

\* for asset_id, df in iterator: the asset the loop takes after n others.
CurrentAsset(list, n) == list[n + 1]

\* gen_frames of MinuteBarWriterFromCSVs: self._asset_map.get(asset) is
\* None, KeyError("No path supplied for asset ...").
GenFramesRaises(map, asset) == asset \notin map

\* path = join(directory, "<asset_id>.bcolz") when sid_path_func is None,
\* sid_path_func(directory, asset_id) otherwise.
PathOf(func, asset_id) ==
    IF func = NoSidPathFunc THEN asset_id ELSE func[asset_id]

\* Mutant of MakedirsRaises: os.makedirs(path, exist_ok=True).
MakedirsRaises_exist_ok(dirs, path) == FALSE

\* os.makedirs(path) raises OSError when the path exists.
MakedirsRaises(dirs, path) == dirs[path].exists

\* The directory before any write(): no metadata.json.
NoMetadata == [exists |-> FALSE, first_trading_day |-> 0]

\* write_metadata(directory, first_trading_day): the file holds the ISO
\* date of the day.
write_metadata(first_day) == [exists |-> TRUE, first_trading_day |-> first_day]

\* write(directory, assets, sid_path_func): write_metadata, then the loop
\* starts.  A sid_path_func is passed over the boundary frames.
Write ==
    /\ pc \in {"idle", "raised"}
    /\ \E list \in Passes : assets' = list
    /\ \E func \in SidPathFuncs :
           /\ func = NoSidPathFunc \/ IsBoundary(calendar, frames)
           /\ sid_path_func' = func
    /\ metadata' = write_metadata(first_trading_day)
    /\ k' = 0
    /\ error' = "none"
    /\ created' = {}
    /\ pc' = "loop"
    /\ UNCHANGED << store, asset_map >>
    /\ UNCHANGED env_vars /\ UNCHANGED reader_vars /\ UNCHANGED index_vars

\* The loop asks the iterator for the next pair and gen_frames has no path
\* for the asset: KeyError leaves write(), before the path is computed.
NoPathSupplied ==
    /\ pc = "loop" /\ k < Len(assets)
    /\ GenFramesRaises(asset_map, CurrentAsset(assets, k))
    /\ error' = "KeyError"
    /\ pc' = "raised"
    /\ UNCHANGED writer_vars
    /\ UNCHANGED env_vars /\ UNCHANGED reader_vars /\ UNCHANGED index_vars

\* os.makedirs(path) on an existing path: OSError leaves write().
DestinationExists ==
    /\ pc = "loop" /\ k < Len(assets)
    /\ ~GenFramesRaises(asset_map, CurrentAsset(assets, k))
    /\ MakedirsRaises(store, PathOf(sid_path_func, CurrentAsset(assets, k)))
    /\ error' = "OSError"
    /\ pc' = "raised"
    /\ UNCHANGED writer_vars
    /\ UNCHANGED env_vars /\ UNCHANGED reader_vars /\ UNCHANGED index_vars

\* One instrument: makedirs, grid, zeros, scatter, ctable(mode='w').
WriteInstrument ==
    /\ pc = "loop" /\ k < Len(assets)
    /\ LET asset_id == CurrentAsset(assets, k)
           path == PathOf(sid_path_func, asset_id)
           built == BuildColumns(calendar, first_trading_day, frames[asset_id])
       IN  /\ ~GenFramesRaises(asset_map, asset_id)
           /\ ~MakedirsRaises(store, path)
           /\ created' = created \cup {path}
           /\ IF built.error # "none"
              THEN /\ store' = [store EXCEPT ![path] = EmptyDir]
                   /\ error' = built.error
                   /\ pc' = "raised"
                   /\ k' = k
              ELSE /\ store' = [store EXCEPT ![path] =
                                   [exists |-> TRUE, table |-> built.cols]]
                   /\ error' = "none"
                   /\ pc' = "loop"
                   /\ k' = k + 1
    /\ UNCHANGED << metadata, assets, asset_map, sid_path_func >>
    /\ UNCHANGED env_vars /\ UNCHANGED reader_vars /\ UNCHANGED index_vars

\* The iterator is exhausted: write() returns.
Return ==
    /\ pc = "loop" /\ k = Len(assets)
    /\ pc' = "idle"
    /\ UNCHANGED error
    /\ UNCHANGED writer_vars
    /\ UNCHANGED env_vars /\ UNCHANGED reader_vars /\ UNCHANGED index_vars

\* The writer after construction: a MinuteBarWriterFromDataFrames, or a
\* MinuteBarWriterFromCSVs whose map has a path for every asset, over any
\* data source; a MinuteBarWriterFromCSVs whose map lacks assets, over
\* the boundary frames.
InitEnv ==
    /\ calendar \in Calendars
    /\ first_trading_day \in AnchorDays(calendar)
    /\ frames \in DataSources(calendar)
    /\ asset_map \in AssetMaps
    /\ asset_map = Assets \/ IsBoundary(calendar, frames)

Init ==
    /\ InitEnv
    /\ metadata = NoMetadata
    /\ store = [a \in Assets |-> Absent]
    /\ pc = "idle"
    /\ assets = << >>
    /\ k = 0
    /\ error = "none"
    /\ created = {}
    /\ sid_path_func = NoSidPathFunc
    /\ carrays = [f \in ReaderFields |-> << >>]
    /\ calls = 0
    /\ opened = 0
    /\ ret = [raised |-> FALSE, hit |-> FALSE,
              carray |-> [sid |-> 0, field |-> "", serial |-> 0]]
    /\ minute_dt = 0
    /\ position = 0

Next ==
    Write \/ NoPathSupplied \/ DestinationExists \/ WriteInstrument \/ Return

Spec == Init /\ [][Next]_vars

(***************************************************************************)
(* Claims about the writer, under Spec.                                    *)
(***************************************************************************)

\* The trading days a reader of the directory works with.
StoreTradingDays == ReaderTradingDays(calendar, metadata.first_trading_day)

\* The last day of an instrument: the date of its final observation.
LastDay(df) == DateOf(df[Len(df)].minute)

\* dayIndex of a trading day: its position in the calendar, counted from
\* the anchor day.
DayIndexOf(cal, anchor, day) == Cardinality({d \in cal : anchor <= d /\ d < day})

\* t is one of the 390 canonical minutes of a trading day in
\* [anchor, last].
Canonical(cal, anchor, last, t) ==
    /\ DateOf(t) \in cal
    /\ anchor <= DateOf(t) /\ DateOf(t) <= last
    /\ SessionOpen(DateOf(t)) <= t
    /\ t < SessionOpen(DateOf(t)) + MINUTES_PER_DAY

\* The six values the writer stores for a row.
Stored(row) ==
    [open |-> row.open, high |-> row.high, low |-> row.low,
     close |-> row.close, volume |-> row.volume,
     dt |-> EpochSeconds(row.minute)]

\* What a read of the persisted columns at 0-based offset p returns.
ReadAt(table, p) ==
    [f \in {"open", "high", "low", "close", "volume", "dt"} |-> table[f][p + 1]]

\* The destination of instrument a in the running write().
Dest(a) == PathOf(sid_path_func, a)

\* The loop has just persisted instrument a: ctable returned for it in the
\* last step.
JustPersisted(a) ==
    /\ pc = "loop" /\ k > 0
    /\ assets[k] = a
    /\ Complete(store[Dest(a)])

\* The scatter loop of instrument a has just raised IndexError, after the
\* grid was built and the arrays were allocated.
JustOverran(a) ==
    /\ pc = "raised" /\ error = "IndexError"
    /\ assets[k + 1] = a

\* C1: writer and reader agree on the offset of every observation.  For
\* an instrument just persisted and every row of its frame whose timestamp
\* T is a canonical minute of a trading day in [AnchorDay, lastDay]: the
\* index minutes.searchsorted(T) the scatter loop stores at equals
\* _find_position_of_minute(T), the grid entry there is T, and the
\* persisted columns read at the reader's position hold the row's open,
\* high, low, close, volume and T's epoch seconds.  And for every minute T
\* of the instrument's grid, observed or not, the writer's index and the
\* reader's position of T are both T's place in the grid.
C1_WriterReaderAgree ==
    \A a \in Assets :
        JustPersisted(a) =>
            LET df == frames[a]
                minutes == GridOf(calendar, first_trading_day, df)
            IN  /\ \A i \in 1..Len(df) :
                       Canonical(calendar, first_trading_day, LastDay(df),
                                 df[i].minute) =>
                           LET idx == searchsorted(minutes, df[i].minute)
                               pos == find_position_of_minute(StoreTradingDays,
                                                              df[i].minute)
                           IN  /\ idx = pos
                               /\ pos >= 0 /\ pos < Len(minutes)
                               /\ minutes[pos + 1] = df[i].minute
                               /\ ReadAt(store[Dest(a)].table, pos)
                                      = Stored(df[i])
                /\ \E days \in {StoreTradingDays} :
                       \A p \in 0..(Len(minutes) - 1) :
                           /\ searchsorted(minutes, minutes[p + 1]) = p
                           /\ find_position_of_minute(days, minutes[p + 1]) = p

\* C1's case: an instrument just persisted with two canonical observations,
\* the later one on the second trading day of the grid, read back at its
\* offset.
C1_Witness ==
    \E a \in Assets :
        /\ JustPersisted(a)
        /\ Len(frames[a]) = 2
        /\ \A i \in 1..2 : Canonical(calendar, first_trading_day,
                                     LastDay(frames[a]), frames[a][i].minute)
        /\ find_position_of_minute(StoreTradingDays, frames[a][2].minute)
               = 2 * MINUTES_PER_DAY - 1
        /\ store[Dest(a)].table.dt[2 * MINUTES_PER_DAY]
               = EpochSeconds(frames[a][2].minute)

\* The offsets the scatter loop stored the rows of a frame at.
Offsets(cal, anchor, df) ==
    LET minutes == GridOf(cal, anchor, df)
    IN  {searchsorted(minutes, df[i].minute) : i \in 1..Len(df)}

\* C2: zero-fill.  After _write_internal persists an instrument, its six
\* columns have one length, and every position that is not the offset of
\* one of the instrument's observations holds 0 in all six, dt included
\* (stated per position: a position holding a non-zero value in any column
\* is the offset of an observation).
C2_ZeroFill ==
    \A a \in Assets :
        JustPersisted(a) =>
            LET table == store[Dest(a)].table
                n == Len(table.open)
                used == Offsets(calendar, first_trading_day, frames[a])
            IN  /\ DOMAIN table = {"open", "high", "low", "close", "volume", "dt"}
                /\ \A f \in DOMAIN table : Len(table[f]) = n
                /\ \A p \in 0..(n - 1) :
                       (\E f \in DOMAIN table : table[f][p + 1] # 0) => p \in used

\* C2's case: one observation, at minute 0 of the second trading day: 780
\* slots, slot 390 filled and the slots around it zero.
C2_Witness ==
    \E a \in Assets :
        /\ JustPersisted(a)
        /\ Len(frames[a]) = 1
        /\ DateOf(frames[a][1].minute) \in calendar
        /\ frames[a][1].minute = SessionOpen(DateOf(frames[a][1].minute))
        /\ Len(store[Dest(a)].table.dt) = 2 * MINUTES_PER_DAY
        /\ store[Dest(a)].table.open[MINUTES_PER_DAY + 1] = frames[a][1].open
        /\ store[Dest(a)].table.open[MINUTES_PER_DAY] = 0
        /\ store[Dest(a)].table.dt[MINUTES_PER_DAY + 2] = 0

\* C3: the grid full_minutes_for_days builds for [AnchorDay, lastDay] is
\* strictly ascending, holds exactly the 390 minutes of every trading day
\* from AnchorDay through lastDay, and has length
\* 390 * (dayIndexOf(lastDay) + 1) when lastDay is a trading day (390 times
\* the number of trading days of the range in general); every array the
\* writer persists for the instrument has that length.
C3_GridSize ==
    \A a \in Assets :
        (JustPersisted(a) \/ JustOverran(a)) =>
            LET df == frames[a]
                days == {d \in calendar :
                            first_trading_day <= d /\ d <= LastDay(df)}
                minutes == GridOf(calendar, first_trading_day, df)
            IN  /\ \A j \in 1..(Len(minutes) - 1) : minutes[j] < minutes[j + 1]
                /\ Len(minutes) = MINUTES_PER_DAY * Cardinality(days)
                /\ LastDay(df) \in calendar =>
                       Len(minutes) = MINUTES_PER_DAY *
                           (DayIndexOf(calendar, first_trading_day, LastDay(df)) + 1)
                /\ \A d \in days :
                       \E base \in {MINUTES_PER_DAY *
                                    DayIndexOf(calendar, first_trading_day, d)} :
                           \A m \in 0..(MINUTES_PER_DAY - 1) :
                               minutes[base + m + 1] = SessionOpen(d) + m
                /\ JustPersisted(a) =>
                       \A f \in DOMAIN store[Dest(a)].table :
                           Len(store[Dest(a)].table[f]) = Len(minutes)

\* C3's case: an instrument whose final observation is on the trading day
\* after a weekend, the second of the grid, persisted with 780 slots.
C3_Witness ==
    \E a \in Assets :
        /\ JustPersisted(a)
        /\ LastDay(frames[a]) \in calendar
        /\ LastDay(frames[a]) - first_trading_day = 3
        /\ DayIndexOf(calendar, first_trading_day, LastDay(frames[a])) = 1
        /\ Len(store[Dest(a)].table.volume) = 2 * MINUTES_PER_DAY

\* C6: exclusive creation.  When the loop comes to an instrument whose
\* destination path exists, the step leaves write() with an exception and
\* every directory as it is, and the exception is OSError
\* (DestinationExists) whenever the iterator yields the instrument, that
\* is, whenever write reaches it; and no step ever changes a directory
\* that holds a complete column set.
C6_ExclusiveCreation ==
    [][ /\ (pc = "loop" /\ k < Len(assets)
              /\ store[Dest(assets[k + 1])].exists)
           => /\ pc' = "raised" /\ store' = store
              /\ assets[k + 1] \in asset_map => error' = "OSError"
        /\ \A p \in DOMAIN store : Complete(store[p]) => store'[p] = store[p]
      ]_vars

\* C6's case: write() has reached an instrument whose path an earlier step
\* persisted columns at, and has raised OSError.
C6_Witness ==
    /\ pc = "raised" /\ error = "OSError"
    /\ Complete(store[Dest(assets[k + 1])])

\* C9 (as claimed): an observation whose timestamp is not a timestamp of
\* the instrument's grid aborts the instrument's write: no instrument is
\* persisted with such an observation in its frame, so none is stored at
\* the slot of another minute.
C9_OffGridAborts ==
    \A a \in Assets :
        JustPersisted(a) =>
            \A i \in 1..Len(frames[a]) :
                Canonical(calendar, first_trading_day, LastDay(frames[a]),
                          frames[a][i].minute)

\* The destinations of the first n instruments of a list.
Before(list, n) == {Dest(list[j]) : j \in 1..n}

\* C10 (as claimed): metadata is persisted before any destination exists;
\* when write() has raised at instrument ik, every instrument before ik
\* holds a complete column set, ik's destination holds no complete column
\* set, and no instrument listed after ik, with a destination other than
\* those of i1..ik, has a destination.
C10_FailureAsClaimed ==
    /\ (\E p \in DOMAIN store : store[p].exists) => metadata.exists
    /\ pc = "raised" =>
          /\ \A p \in Before(assets, k) : Complete(store[p])
          /\ ~Complete(store[Dest(assets[k + 1])])
          /\ \A j \in (k + 2)..Len(assets) :
                 Dest(assets[j]) \notin Before(assets, k + 1)
                     => ~store[Dest(assets[j])].exists

\* C10 (amended): metadata is persisted before any destination exists;
\* instruments are taken one at a time in list order: while the pass runs,
\* the destinations of the instruments before the current one hold
\* complete column sets and are exactly the directories the pass created;
\* when write() has raised at instrument ik, the pass has created no
\* directory for an instrument listed only after ik, and ik's destination
\* is an empty directory the pass created when the failure came after
\* os.makedirs (ValueError, IndexError); it is left as it was when the
\* failure is KeyError (the data source has no frame for ik) or OSError
\* (DestinationExists: it existed before ik was reached).
C10_FailureAmended ==
    /\ (\E p \in DOMAIN store : store[p].exists) => metadata.exists
    /\ pc \in {"loop", "raised"} =>
          /\ \A p \in Before(assets, k) : Complete(store[p])
          /\ pc = "loop" => created = Before(assets, k)
    /\ pc = "raised" =>
          /\ created \subseteq Before(assets, k + 1)
          /\ error \in {"KeyError", "OSError", "ValueError", "IndexError"}
          /\ error \in {"ValueError", "IndexError"} =>
                 /\ store[Dest(assets[k + 1])] = EmptyDir
                 /\ Dest(assets[k + 1]) \in created
          /\ error \in {"KeyError", "OSError"} => created = Before(assets, k)
          /\ error = "KeyError" => assets[k + 1] \notin asset_map
          /\ error = "OSError" => store[Dest(assets[k + 1])].exists

\* C10's case: a pass of two instruments with different destinations
\* raised in the scatter loop of the second: the first is persisted, the
\* second is an empty directory.
C10_Witness ==
    /\ pc = "raised" /\ error = "IndexError" /\ k = 1
    /\ Len(assets) = 2 /\ Dest(assets[1]) # Dest(assets[2])
    /\ Complete(store[Dest(assets[1])])
    /\ store[Dest(assets[2])] = EmptyDir

(***************************************************************************)
(* The reader.                                                             *)
(***************************************************************************)

\* What _write_internal leaves at an instrument's path when the loop
\* reaches it in an empty directory: the ctable, or the bare directory of
\* os.makedirs when the loop raised.
WrittenDir(cal, first_day, df) ==
    LET built == BuildColumns(cal, first_day, df)
    IN  IF built.error = "none"
        THEN [exists |-> TRUE, table |-> built.cols]
        ELSE EmptyDir

\* BcolzMinuteBarReader.__init__: _carrays
EmptyCarrays == [f \in ReaderFields |-> << >>]

\* No carray: the call raised.
NoCarray == [sid |-> 0, field |-> "", serial |-> 0]

\* _get_ctable(asset): the path is self._sid_path_func(rootdir, sid), or
\* "<rootdir>/<sid>.bcolz" when that is None; bcolz.open(path, mode='r')
\* returns for a directory that holds a ctable and raises for any other
\* path.
GetCtableRaises(dirs, func, asset) == ~Complete(dirs[PathOf(func, asset)])

\* Mutant of Cached: the lookup always misses.
Cached_never(cache, field, sid_str) == FALSE

\* try: carray = self._carrays[field][sid_str] -- no KeyError
Cached(cache, field, sid_str) == sid_str \in DOMAIN cache[field]

\* _open_minute_file(field, asset)
OpenMinuteFile(field, asset) ==
    /\ pc = "reader"
    /\ calls < MaxCalls
    /\ calls' = calls + 1
    /\ IF Cached(carrays, field, asset)
       THEN /\ ret' = [raised |-> FALSE, hit |-> TRUE,
                       carray |-> carrays[field][asset]]
            /\ UNCHANGED << carrays, opened >>
       ELSE IF GetCtableRaises(store, sid_path_func, asset)
       THEN /\ ret' = [raised |-> TRUE, hit |-> FALSE, carray |-> NoCarray]
            /\ UNCHANGED << carrays, opened >>
       ELSE IF field \notin DOMAIN store[PathOf(sid_path_func, asset)].table
       THEN /\ opened' = opened + 1
            /\ ret' = [raised |-> TRUE, hit |-> FALSE, carray |-> NoCarray]
            /\ UNCHANGED carrays
       ELSE LET carray == [sid |-> asset, field |-> field,
                           serial |-> opened + 1]
            IN  /\ opened' = opened + 1
                /\ carrays' = [carrays EXCEPT
                                  ![field] = (asset :> carray) @@ carrays[field]]
                /\ ret' = [raised |-> FALSE, hit |-> FALSE, carray |-> carray]
    /\ UNCHANGED << pc, error >>
    /\ UNCHANGED env_vars /\ UNCHANGED writer_vars /\ UNCHANGED index_vars

\* _find_position_of_minute(minute_dt): it returns, whatever the minute.
FindPositionOfMinute(t) ==
    /\ pc = "reader"
    /\ minute_dt' = t
    /\ position' = find_position_of_minute(
                       ReaderTradingDays(calendar, metadata.first_trading_day), t)
    /\ error' = "none"
    /\ UNCHANGED pc
    /\ UNCHANGED env_vars /\ UNCHANGED writer_vars /\ UNCHANGED reader_vars

\* A directory one writer has written, with no sid_path_func: metadata
\* and, per instrument, what a write of it left, or nothing.
InitWritten ==
    /\ metadata = write_metadata(first_trading_day)
    /\ assets = << >>
    /\ k = 0
    /\ error = "none"
    /\ created = {}
    /\ asset_map = Assets
    /\ carrays = EmptyCarrays
    /\ calls = 0
    /\ opened = 0
    /\ ret = [raised |-> FALSE, hit |-> FALSE, carray |-> NoCarray]
    /\ minute_dt = 0
    /\ position = 0
    /\ pc = "reader"

\* Readers of a directory in which instrument 1 is persisted and
\* instrument 2 is persisted, left as an empty directory by a failed
\* write, or was never written.
InitReader ==
    /\ calendar \in Calendars
    /\ first_trading_day = SortedSeq(calendar)[1]
    /\ frames \in BoundaryFrames(calendar)
    /\ frames[1][1].minute = SessionOpen(first_trading_day)
    /\ store \in [Assets -> {Absent} \cup
                    {WrittenDir(calendar, first_trading_day, frames[a]) :
                        a \in Assets}]
    /\ store[1] = WrittenDir(calendar, first_trading_day, frames[1])
    /\ store[2] \in {Absent, WrittenDir(calendar, first_trading_day, frames[2])}
    /\ sid_path_func \in SidPathFuncs
    /\ InitWritten

NextReader == \E f \in ReaderFields, a \in Assets : OpenMinuteFile(f, a)

SpecReader == InitReader /\ [][NextReader]_vars

\* Readers asked for positions, over a directory holding one bar per
\* instrument at the anchor day's first minute.
InitIndex ==
    /\ calendar \in Calendars
    /\ first_trading_day \in AnchorDays(calendar)
    /\ frames = [a \in Assets |-> << Bar(a, SessionOpen(first_trading_day)) >>]
    /\ store = [a \in Assets |->
                   WrittenDir(calendar, first_trading_day, frames[a])]
    /\ sid_path_func = NoSidPathFunc
    /\ InitWritten

NextIndex == \E t \in QueryMinutes(calendar) : FindPositionOfMinute(t)

SpecIndex == InitIndex /\ [][NextIndex]_vars

(***************************************************************************)
(* Claims about the reader's cache, under SpecReader.                      *)
(***************************************************************************)

\* The (field, sid) pairs with a cached carray.
CachedPairs(cache) ==
    {pr \in ReaderFields \X Assets : pr[2] \in DOMAIN cache[pr[1]]}

\* C7: handle caching.  Every cached carray is the one a single
\* bcolz.open produced for its (field, instrument) pair, no two pairs
\* sharing an open; and in every call of _open_minute_file(field, asset):
\* a cached pair is answered with the cached carray without opening the
\* backend; a call that raises adds no entry; a call that opens the pair
\* adds exactly its entry; and no entry of any pair is removed or
\* replaced.
C7_HandleCaching ==
    /\ [](\A pr \in CachedPairs(carrays) :
            /\ carrays[pr[1]][pr[2]].field = pr[1]
            /\ carrays[pr[1]][pr[2]].sid = pr[2]
            /\ carrays[pr[1]][pr[2]].serial \in 1..opened
            /\ \A qr \in CachedPairs(carrays) :
                   carrays[qr[1]][qr[2]].serial = carrays[pr[1]][pr[2]].serial
                       => qr = pr)
    /\ [][ \A f \in ReaderFields, a \in Assets :
             OpenMinuteFile(f, a) =>
                /\ \A pr \in CachedPairs(carrays) :
                       /\ pr \in CachedPairs(carrays')
                       /\ carrays'[pr[1]][pr[2]] = carrays[pr[1]][pr[2]]
                /\ << f, a >> \in CachedPairs(carrays) =>
                       /\ ~ret'.raised
                       /\ ret'.carray = carrays[f][a]
                       /\ opened' = opened
                       /\ carrays' = carrays
                /\ ret'.raised => carrays' = carrays
                /\ (<< f, a >> \notin CachedPairs(carrays) /\ ~ret'.raised) =>
                       /\ CachedPairs(carrays') =
                              CachedPairs(carrays) \cup {<< f, a >>}
                       /\ carrays'[f][a] = ret'.carray
                       /\ opened' = opened + 1
         ]_vars

\* C7's case: the last of several calls was answered from the cache, with
\* the carray of the one open of its pair, while another instrument's
\* calls raised.
C7_Witness ==
    /\ calls = MaxCalls
    /\ ret.hit /\ ~ret.raised
    /\ opened = 1
    /\ CachedPairs(carrays) = {<< ret.carray.field, ret.carray.sid >>}
    /\ \E a \in Assets : GetCtableRaises(store, sid_path_func, a)

(***************************************************************************)
(* Claims about _find_position_of_minute, under SpecIndex.                 *)
(***************************************************************************)

\* A position has been asked for.
Asked == minute_dt # 0

\* p is an offset of the store: a slot of the block of 390 of one of the
\* reader's trading days.
IsOffset(p) ==
    /\ 0 <= p
    /\ p < MINUTES_PER_DAY *
               Len(ReaderTradingDays(calendar, metadata.first_trading_day))

\* C4 (as claimed): range exclusivity.  For a timestamp on a known trading
\* day whose minute index within the session is negative or >= 390, the
\* computation fails with OutOfSessionRange and returns no offset, in
\* particular none of another trading day's block.  Stated weakly: it
\* fails, or at least what it returns is the offset of no slot.
C4_RangeExclusivity ==
    (/\ Asked
     /\ DateOf(minute_dt) \in calendar
     /\ DateOf(minute_dt) >= first_trading_day
     /\ \/ minute_dt < SessionOpen(DateOf(minute_dt))
        \/ minute_dt >= SessionOpen(DateOf(minute_dt)) + MINUTES_PER_DAY)
    => (error = "OutOfSessionRange" \/ ~IsOffset(position))

\* C5 (as claimed): for a timestamp whose date is not a trading day of the
\* calendar, or precedes AnchorDay, the computation fails with
\* OutOfCalendarRange and never returns the offset of a valid trading day.
\* Stated weakly: it fails, or at least what it returns is the offset of
\* no slot.
C5_CalendarRange ==
    (/\ Asked
     /\ \/ DateOf(minute_dt) \notin calendar
        \/ DateOf(minute_dt) < first_trading_day)
    => (error = "OutOfCalendarRange" \/ ~IsOffset(position))

\* Every trading minute since market open of the first trading day, to
\* the end of the calendar.
EveryTradingMinute ==
    full_minutes_for_days(calendar, first_open(first_trading_day),
                          SessionOpen(SortedSeq(calendar)[Len(SortedSeq(calendar))]))

\* C8 (as claimed): the result is the position of the minute in the list
\* of every trading minute since market open of the first trading day;
\* and, as the docstring says, it is 2 for 1/2/2002 9:32 AM Eastern
\* (14:32 UTC) when 1/2/2002 is the first trading day.
C8_DocstringPosition ==
    Asked =>
        \E list \in {EveryTradingMinute} :
            /\ (\E i \in 1..Len(list) : list[i] = minute_dt)
               => (/\ position \in 0..(Len(list) - 1)
                   /\ list[position + 1] = minute_dt)
            /\ (first_trading_day = 11689
                  /\ minute_dt = 11689 * 1440 + 14 * 60 + 32)
               => position = 2
====
